---- MODULE Spec2Model ----
(***************************************************************************)
(* Sales_Analysis.py: resampling of a time-indexed sales series at four    *)
(* calendar widths, classical seasonal decomposition of every resampled    *)
(* series, the low/high sales slices, the per-resolution insight text and  *)
(* analyze_data, which gates every resolution on its bucket count.         *)
(*                                                                         *)
(* Time is counted in whole hours since 2018-01-01 00:00, a Monday and the *)
(* first hour of a month and of a year, so hour, day, week (Monday to      *)
(* Sunday, pandas 'W' = W-SUN) and month buckets are all aligned at 0.     *)
(* The minutes of a timestamp never change the bucket it falls in, so a    *)
(* timestamp is its hour; two points of one hour are two rows of the CSV.  *)
(***************************************************************************)
EXTENDS Integers, Sequences, FiniteSets, TLC

VARIABLES df, datetime_index, has_sales, pc, summaries, printed, buckets, calls, raised_in, arg, ret

vars == <<df, datetime_index, has_sales, pc, summaries, printed, buckets, calls, raised_in, arg, ret>>

(***************************************************************************)
(* Bounds of the model.                                                    *)
(***************************************************************************)
\* rows of the CSV handed to analyze_data
MaxPoints == 3

\* rows of the series handed to identify_low_high_sales alone
MaxLen == 4

\* rows of the frame handed to resample_data alone
MaxRows == 3

\* observations of the series handed to decompose_series alone
MaxObs == 6

\* arg and ret before a call and before its return
NoCall == <<>>

(***************************************************************************)
(* Sequences and numbers.                                                  *)
(***************************************************************************)
Range(s) == {s[i] : i \in DOMAIN s}

\* s[lo] + ... + s[hi], halving the range
RECURSIVE SumRange(_, _, _)
SumRange(s, lo, hi) ==
    IF lo > hi THEN 0
    ELSE IF lo = hi THEN s[lo]
    ELSE LET mid == (lo + hi) \div 2
         IN  SumRange(s, lo, mid) + SumRange(s, mid + 1, hi)

SeqSum(s) == SumRange(s, 1, Len(s))

SetMax(S) == CHOOSE x \in S : \A y \in S : y <= x

SetMin(S) == CHOOSE x \in S : \A y \in S : x <= y

\* sequences over S of length 0..n
SeqsUpTo(S, n) == UNION {[1..k -> S] : k \in 0..n}

(***************************************************************************)
(* float64 values of the 'sales' column, in units of 1e306: a finite sum   *)
(* is at most FloatMax (1.797e308), anything above is inf.                 *)
(***************************************************************************)
FloatMax == 179

Inf == FloatMax + 1

IsFinite(x) == x <= FloatMax

FAdd(a, b) == IF a + b > FloatMax THEN Inf ELSE a + b

RECURSIVE FSum(_)
FSum(s) == IF s = <<>> THEN 0 ELSE FAdd(s[1], FSum(Tail(s)))

(***************************************************************************)
(* The calendar behind df.resample(freq): 2018, 2019 and 2020 (leap).      *)
(***************************************************************************)
HoursPerDay == 24

DaysPerWeek == 7

MonthLengths ==
    <<31, 28, 31, 30, 31, 30, 31, 31, 30, 31, 30, 31,
      31, 28, 31, 30, 31, 30, 31, 31, 30, 31, 30, 31,
      31, 29, 31, 30, 31, 30, 31, 31, 30, 31, 30, 31>>

\* first day of month m (m = 0 is January 2018)
MonthStarts == [m \in 0..Len(MonthLengths) |-> SeqSum(SubSeq(MonthLengths, 1, m))]

MonthStart(m) == MonthStarts[m]

DayOf(t) == t \div HoursPerDay

MonthOf(d) == CHOOSE m \in 0..(Len(MonthLengths) - 1) :
                 MonthStart(m) <= d /\ d < MonthStart(m + 1)

Freqs == {"H", "D", "W", "M"}

(***************************************************************************)
(* resample_data: df.resample(freq).sum().  The result is indexed by the   *)
(* consecutive buckets from the one of the earliest timestamp to the one   *)
(* of the latest; a bucket's value is the float sum of the rows falling in *)
(* it, 0 for none.  An empty frame resamples to an empty frame.  The       *)
(* frames here have a DatetimeIndex; the ValueError raised for any other   *)
(* index is part of the passes of analyze_data below.                      *)
(***************************************************************************)
BucketOf(freq, t) ==
    CASE freq = "H" -> t
      [] freq = "D" -> DayOf(t)
      [] freq = "W" -> DayOf(t) \div DaysPerWeek
      [] freq = "M" -> MonthOf(DayOf(t))

\* the rows of frame whose timestamp falls in bucket b, in frame order
RECURSIVE RowsIn(_, _, _)
RowsIn(frame, freq, b) ==
    IF frame = <<>> THEN <<>>
    ELSE LET rest == RowsIn(Tail(frame), freq, b)
         IN  IF BucketOf(freq, frame[1].t) = b THEN <<frame[1].v>> \o rest ELSE rest

BucketSum(frame, freq, b) == FSum(RowsIn(frame, freq, b))

FirstBucket(frame, freq) == BucketOf(freq, SetMin({frame[i].t : i \in DOMAIN frame}))

LastBucket(frame, freq) == BucketOf(freq, SetMax({frame[i].t : i \in DOMAIN frame}))

BucketCount(frame, freq) ==
    IF frame = <<>> THEN 0
    ELSE LastBucket(frame, freq) - FirstBucket(frame, freq) + 1

\* df.groupby(bucket).sum(): only the buckets that hold rows
resample_data_Groupby(frame, freq) ==
    LET held == {BucketOf(freq, frame[i].t) : i \in DOMAIN frame}
        n == Cardinality(held)
        nth(i) == CHOOSE b \in held : Cardinality({c \in held : c < b}) = i - 1
    IN  [len   |-> n,
         index |-> [i \in 1..n |-> nth(i)],
         sales |-> [i \in 1..n |-> BucketSum(frame, freq, nth(i))]]

\* index[i] is the bucket of row i of the result, sales[i] its sum
resample_data(frame, freq) ==
    LET n == BucketCount(frame, freq)
        first == IF n = 0 THEN 0 ELSE FirstBucket(frame, freq)
    IN  [len   |-> n,
         index |-> [i \in 1..n |-> first + i - 1],
         sales |-> [i \in 1..n |-> BucketSum(frame, freq, first + i - 1)]]

\* len(resample_data(frame, freq)), without building the rows
ResampledLen(frame, freq) == BucketCount(frame, freq)

\* np.all(np.isfinite(x)) on a resampled column: the buckets without rows
\* hold 0, so only the buckets of the rows can be non-finite
AllFinite(frame, freq) ==
    \A i \in DOMAIN frame : IsFinite(BucketSum(frame, freq, BucketOf(freq, frame[i].t)))

(***************************************************************************)
(* decompose_series -> statsmodels seasonal_decompose: what it refuses.    *)
(***************************************************************************)
DecomposeError(nobs, finite, period) ==
    IF ~finite THEN "ValueError: This function does not handle missing values"
    ELSE IF nobs < 2 * period THEN "ValueError: x must have 2 complete cycles"
    ELSE "ok"

(***************************************************************************)
(* print_decomposition: the insight branch is chosen by substring tests on *)
(* the title, in the order of the if/elif chain.  A title is its words.    *)
(***************************************************************************)
Contains(sub, s) ==
    \E i \in 1..(Len(s) - Len(sub) + 1) : SubSeq(s, i, i + Len(sub) - 1) = sub

InsightTemplate(title) ==
    IF Contains(<<"Hourly", "Analysis">>, title) THEN "Peak Hours"
    ELSE IF Contains(<<"Daily", "Analysis">>, title) THEN "Peak Sales Days"
    ELSE IF Contains(<<"Weekly", "Analysis">>, title) THEN "Peak Weeks"
    ELSE IF Contains(<<"Monthly", "Analysis">>, title) THEN "Peak Sales Months"
    ELSE IF Contains(<<"Seasonal", "Analysis">>, title) THEN "Peak Seasons"
    ELSE "none"

(***************************************************************************)
(* analyze_data.                                                           *)
(***************************************************************************)
Resolutions == <<"Hourly", "Daily", "Weekly", "Monthly", "Seasonal">>

HourlyPeriod == 24

\* the hourly gate asking for one cycle of the period, not two
HourlyMin_OneCycle == HourlyPeriod

HourlyMin == 48

DailyMin == 14

WeeklyMin == 8

MonthlyMin == 24

SeasonalMin == 24

DailyPeriod == 7

WeeklyPeriod == 4

MonthlyPeriod == 12

SeasonalPeriod == 12

\* the gate written with > where the code has >=
MinBuckets_Strict(res) ==
    CASE res = "Hourly" -> HourlyMin + 1
      [] res = "Daily" -> DailyMin + 1
      [] res = "Weekly" -> WeeklyMin + 1
      [] res = "Monthly" -> MonthlyMin + 1
      [] res = "Seasonal" -> SeasonalMin + 1

MinBuckets(res) ==
    CASE res = "Hourly" -> HourlyMin
      [] res = "Daily" -> DailyMin
      [] res = "Weekly" -> WeeklyMin
      [] res = "Monthly" -> MonthlyMin
      [] res = "Seasonal" -> SeasonalMin

Period(res) ==
    CASE res = "Hourly" -> HourlyPeriod
      [] res = "Daily" -> DailyPeriod
      [] res = "Weekly" -> WeeklyPeriod
      [] res = "Monthly" -> MonthlyPeriod
      [] res = "Seasonal" -> SeasonalPeriod

Title(res) == <<res, "Analysis">>

\* the string "Not enough data for <resolution> analysis"
Sentinel(res) ==
    [kind |-> "sentinel", res |-> res, title |-> <<>>, template |-> "none",
     nobs |-> 0, period |-> 0]

\* the block print_decomposition returns for the result of decomposing nobs
\* buckets with the given period: its title line and its insight template
ReportBlock(res, title, nobs, period) ==
    [kind |-> "report", res |-> res, title |-> title,
     template |-> InsightTemplate(title), nobs |-> nobs, period |-> period]

\* one "if len(data) >= min: decompose, report; else: sentinel" block of
\* analyze_data on the frame resampled at freq, whose length is n
GateAndReport(res, freq, n, next) ==
    IF n >= MinBuckets(res)
    THEN IF ~has_sales
         THEN \* data['sales'] raises KeyError before the Decomposer is called
              /\ pc' = "raised"
              /\ raised_in' = [res |-> res, error |-> "KeyError: 'sales'"]
              /\ UNCHANGED <<summaries, calls>>
         ELSE LET finite == AllFinite(df, freq)
                  err == DecomposeError(n, finite, Period(res))
              IN  /\ calls' = Append(calls, [res |-> res, nobs |-> n,
                                             period |-> Period(res), error |-> err])
                  /\ IF err = "ok"
                     THEN /\ summaries' = Append(summaries,
                                 ReportBlock(res, Title(res), n, Period(res)))
                          /\ pc' = next
                          /\ UNCHANGED raised_in
                     ELSE /\ pc' = "raised"
                          /\ raised_in' = [res |-> res, error |-> err]
                          /\ UNCHANGED summaries
    ELSE /\ summaries' = Append(summaries, Sentinel(res))
         /\ pc' = next
         /\ UNCHANGED <<calls, raised_in>>

\* data = resample_data(df, freq), which raises on an index that is not a
\* DatetimeIndex, then the gate on len(data)
ResampleGateAndReport(res, freq, next) ==
    IF ~datetime_index
    THEN /\ pc' = "raised"
         /\ raised_in' = [res |-> res,
                          error |-> "ValueError: The DataFrame index must be a DatetimeIndex."]
         /\ UNCHANGED <<buckets, summaries, calls>>
    ELSE LET n == ResampledLen(df, freq)
         IN  /\ buckets' = buckets @@ (res :> n)
             /\ GateAndReport(res, freq, n, next)

HourlyAnalysis ==
    /\ pc = "Hourly"
    /\ ResampleGateAndReport("Hourly", "H", "Daily")
    /\ UNCHANGED <<df, datetime_index, has_sales, printed, arg, ret>>

DailyAnalysis ==
    /\ pc = "Daily"
    /\ ResampleGateAndReport("Daily", "D", "Weekly")
    /\ UNCHANGED <<df, datetime_index, has_sales, printed, arg, ret>>

WeeklyAnalysis ==
    /\ pc = "Weekly"
    /\ ResampleGateAndReport("Weekly", "W", "Monthly")
    /\ UNCHANGED <<df, datetime_index, has_sales, printed, arg, ret>>

MonthlyAnalysis ==
    /\ pc = "Monthly"
    /\ ResampleGateAndReport("Monthly", "M", "Seasonal")
    /\ UNCHANGED <<df, datetime_index, has_sales, printed, arg, ret>>

\* the Seasonal pass gated on weekly_data, the block above it in the code
SeasonalAnalysis_OnWeekly ==
    /\ pc = "Seasonal"
    /\ LET n == buckets["Weekly"]
       IN  /\ buckets' = buckets @@ ("Seasonal" :> n)
           /\ GateAndReport("Seasonal", "W", n, "print")
    /\ UNCHANGED <<df, datetime_index, has_sales, printed, arg, ret>>

\* the Seasonal pass tests and decomposes monthly_data, resampled by the
\* Monthly pass
SeasonalAnalysis ==
    /\ pc = "Seasonal"
    /\ LET n == buckets["Monthly"]
       IN  /\ buckets' = buckets @@ ("Seasonal" :> n)
           /\ GateAndReport("Seasonal", "M", n, "print")
    /\ UNCHANGED <<df, datetime_index, has_sales, printed, arg, ret>>

\* for summary in summaries: print(summary), then analyze_data returns
\* the summaries printed last first
RECURSIVE PrintAll_Reversed(_, _)
PrintAll_Reversed(out, todo) ==
    IF todo = <<>> THEN out ELSE PrintAll_Reversed(<<todo[1]>> \o out, Tail(todo))

\* only the real reports printed
RECURSIVE PrintAll_ReportsOnly(_, _)
PrintAll_ReportsOnly(out, todo) ==
    IF todo = <<>> THEN out
    ELSE PrintAll_ReportsOnly(IF todo[1].kind = "report" THEN Append(out, todo[1]) ELSE out,
                              Tail(todo))

RECURSIVE PrintAll(_, _)
PrintAll(out, todo) ==
    IF todo = <<>> THEN out ELSE PrintAll(Append(out, todo[1]), Tail(todo))

PrintSummaries ==
    /\ pc = "print"
    /\ printed' = PrintAll(printed, summaries)
    /\ pc' = "done"
    /\ UNCHANGED <<df, datetime_index, has_sales, summaries, buckets, calls, raised_in, arg, ret>>

(***************************************************************************)
(* The frames load_data hands to analyze_data: up to MaxPoints rows in     *)
(* time order, at hours on both sides of every gate, with ordinary sales   *)
(* (1) and sales of 1e308 (Huge), two of which sum to inf; the CSV may     *)
(* lack the 'sales' column, which load_data does not look for.  The index  *)
(* of a frame with rows holds the parsed timestamps; read_csv converts no  *)
(* dates for a CSV without rows, so the index of an empty frame may or may *)
(* not be a DatetimeIndex.                                                 *)
(***************************************************************************)
Small == 1

Huge == 100

\* the last hour of day d, the first hour of day d
LastHour(d) == d * HoursPerDay + (HoursPerDay - 1)

FirstHour(d) == d * HoursPerDay

Times ==
    { 0, 1, 47,
      LastHour(12), FirstHour(13),
      LastHour(6), LastHour(48), FirstHour(49),
      LastHour(MonthStart(23) - 1), FirstHour(MonthStart(23)) }

Rows == [t : Times, v : {Small, Huge}]

TimeOrdered(frame) == \A i, j \in DOMAIN frame : i < j => frame[i].t <= frame[j].t

Frames == {f \in SeqsUpTo(Rows, MaxPoints) : TimeOrdered(f)}

Init ==
    /\ df \in Frames
    /\ datetime_index \in (IF df = <<>> THEN BOOLEAN ELSE {TRUE})
    /\ has_sales \in BOOLEAN
    /\ pc = "Hourly"
    /\ summaries = <<>>
    /\ printed = <<>>
    /\ buckets = <<>>
    /\ calls = <<>>
    /\ raised_in = [res |-> "none", error |-> "none"]
    /\ arg = NoCall
    /\ ret = NoCall

Next ==
    \/ HourlyAnalysis
    \/ DailyAnalysis
    \/ WeeklyAnalysis
    \/ MonthlyAnalysis
    \/ SeasonalAnalysis
    \/ PrintSummaries

Spec == Init /\ [][Next]_vars

(***************************************************************************)
(* identify_low_high_sales.  A series is a sequence of rows [t, v] and the *)
(* threshold a fraction num/den; int(len * threshold) truncates a          *)
(* non-negative product, so it is (len * num) \div den.  sort_values       *)
(* orders by value; rows of equal value keep their order here.             *)
(***************************************************************************)
RECURSIVE InsertByValue(_, _)
InsertByValue(row, sorted) ==
    IF sorted = <<>> THEN <<row>>
    ELSE IF row.v < sorted[1].v THEN <<row>> \o sorted
    ELSE <<sorted[1]>> \o InsertByValue(row, Tail(sorted))

RECURSIVE sort_values(_)
sort_values(series) ==
    IF series = <<>> THEN <<>>
    ELSE InsertByValue(series[Len(series)], sort_values(SubSeq(series, 1, Len(series) - 1)))

\* int(len(sorted_series) * threshold) with the product rounded up
SliceCount_Ceil(n, threshold) == (n * threshold.num + threshold.den - 1) \div threshold.den

\* int(len(sorted_series) * threshold)
SliceCount(n, threshold) == (n * threshold.num) \div threshold.den

\* Python's s[:k] for k >= 0
SliceHead(s, k) == SubSeq(s, 1, IF k < Len(s) THEN k ELSE Len(s))

\* Python's s[-k:] for k >= 0: -0 is 0, so s[-0:] is s[0:], all of s
SliceTail(s, k) ==
    IF k = 0 THEN s
    ELSE SubSeq(s, (IF k < Len(s) THEN Len(s) - k ELSE 0) + 1, Len(s))

identify_low_high_sales(series, threshold) ==
    LET sorted_series == sort_values(series)
        k == SliceCount(Len(sorted_series), threshold)
    IN  [low_sales  |-> SliceHead(sorted_series, k),
         high_sales |-> SliceTail(sorted_series, k)]

Thresholds ==
    {[num |-> 1, den |-> 4], [num |-> 1, den |-> 2], [num |-> 1, den |-> 3],
     [num |-> 1, den |-> 10], [num |-> 2, den |-> 5]}

\* the series of n rows with the values vs, at consecutive buckets from 0
SeriesOf(vs) == [i \in DOMAIN vs |-> [t |-> i - 1, v |-> vs[i]]]

ExtremesInputs ==
    {[series |-> SeriesOf(vs), threshold |-> th] :
        vs \in SeqsUpTo({0, 1, 2}, MaxLen), th \in Thresholds}

\* the pipeline's variables, at rest while one function is exercised alone
PipelineIdle ==
    /\ df = <<>>
    /\ datetime_index = TRUE
    /\ has_sales = TRUE
    /\ summaries = <<>>
    /\ printed = <<>>
    /\ buckets = <<>>
    /\ calls = <<>>
    /\ raised_in = [res |-> "none", error |-> "none"]

InitExtremes ==
    /\ PipelineIdle
    /\ pc = "call"
    /\ arg \in ExtremesInputs
    /\ ret = NoCall

IdentifyLowHighSales ==
    /\ pc = "call"
    /\ ret' = identify_low_high_sales(arg.series, arg.threshold)
    /\ pc' = "ret"
    /\ UNCHANGED <<df, datetime_index, has_sales, summaries, printed, buckets, calls, raised_in, arg>>

SpecExtremes == InitExtremes /\ [][IdentifyLowHighSales]_vars

(***************************************************************************)
(* resample_data on its own: short frames around the first day, week and   *)
(* month boundaries, at every frequency.                                   *)
(***************************************************************************)
ResampleTimes == {0, 1, FirstHour(1), LastHour(6), FirstHour(7), FirstHour(MonthStart(1))}

ResampleFrames ==
    {f \in SeqsUpTo([t : ResampleTimes, v : {1, 2}], MaxRows) : TimeOrdered(f)}

InitResample ==
    /\ PipelineIdle
    /\ pc = "call"
    /\ arg \in {[frame |-> f, freq |-> q] : f \in ResampleFrames, q \in Freqs}
    /\ ret = NoCall

ResampleData ==
    /\ pc = "call"
    /\ ret' = resample_data(arg.frame, arg.freq)
    /\ pc' = "ret"
    /\ UNCHANGED <<df, datetime_index, has_sales, summaries, printed, buckets, calls, raised_in, arg>>

SpecResample == InitResample /\ [][ResampleData]_vars

(***************************************************************************)
(* decompose_series: seasonal_decompose(series, model='additive', period)  *)
(* of statsmodels.  A series is [index, freq, values]; a float that may be *)
(* NaN is <<>> (NaN) or <<v>>.  The arithmetic is exact: every number of   *)
(* the result is a numerator over the common denominator "scale", which    *)
(* is 2 * period (the filter weights) times the product of the group       *)
(* sizes (the seasonal means) times period (the mean of the means).        *)
(***************************************************************************)
NaN == <<>>

Num(v) == <<v>>

NoPeriod == <<>>

RECURSIVE SetSum(_, _)
SetSum(f, S) ==
    IF S = {} THEN 0
    ELSE LET i == CHOOSE i \in S : TRUE IN f[i] + SetSum(f, S \ {i})

RECURSIVE SetProduct(_, _)
SetProduct(f, S) ==
    IF S = {} THEN 1
    ELSE LET i == CHOOSE i \in S : TRUE IN f[i] * SetProduct(f, S \ {i})

\* the filter: period ones (odd period), or a half, period - 1 ones, a half
FilterLen(period) == IF period % 2 = 0 THEN period + 1 ELSE period

\* weight, in halves, of place k (1..FilterLen) of the filter
FilterWeight(period, k) ==
    IF period % 2 = 0 /\ (k = 1 \/ k = FilterLen(period)) THEN 1 ELSE 2

\* the one-sided filter (two_sided=False): the window ends at i
WindowStart_OneSided(i, period) == i - (FilterLen(period) - 1)

\* the window of the centred filter (nsides = 2) around position i
WindowStart(i, period) == i - (period \div 2)

\* convolution_filter pads with NaN where the window leaves the series
TrendDefined(i, n, period) ==
    /\ WindowStart(i, period) >= 1
    /\ WindowStart(i, period) + FilterLen(period) - 1 <= n

\* 2 * period * trend[i]
TrendNum(x, i, period) ==
    SetSum([k \in 1..FilterLen(period) |->
                FilterWeight(period, k) * x[WindowStart(i, period) + k - 1]],
           1..FilterLen(period))

seasonal_decompose(x, index, period) ==
    LET n == Len(x)
        defined == {i \in 1..n : TrendDefined(i, n, period)}
        \* x[j::period], where the trend is defined (pd_nanmean skips NaN)
        group == [j \in 0..(period - 1) |-> {i \in defined : (i - 1) % period = j}]
        count == [j \in 0..(period - 1) |-> Cardinality(group[j])]
        counts == SetProduct(count, 0..(period - 1))
        scale == 2 * period * counts * period
        \* 2 * period * (x - trend)
        detrended == [i \in defined |-> 2 * period * x[i] - TrendNum(x, i, period)]
        \* 2 * period * counts * period_averages[j]
        average == [j \in 0..(period - 1) |->
                        SetSum(detrended, group[j]) * (counts \div count[j])]
        \* scale * np.mean(period_averages)
        mean == SetSum(average, 0..(period - 1))
        seasonal == [j \in 0..(period - 1) |-> period * average[j] - mean]
    IN  [error    |-> "ok",
         period   |-> period,
         scale    |-> scale,
         index    |-> index,
         observed |-> [i \in 1..n |-> Num(scale * x[i])],
         trend    |-> [i \in 1..n |->
                          IF i \in defined
                          THEN Num(TrendNum(x, i, period) * counts * period) ELSE NaN],
         seasonal |-> [i \in 1..n |-> Num(seasonal[(i - 1) % period])],
         resid    |-> [i \in 1..n |->
                          IF i \in defined
                          THEN Num(detrended[i] * counts * period
                                   - seasonal[(i - 1) % period])
                          ELSE NaN]]

Refused(error, period) ==
    [error |-> error, period |-> period, scale |-> 1, index |-> <<>>,
     observed |-> <<>>, trend |-> <<>>, seasonal |-> <<>>, resid |-> <<>>]

decompose_series(series, period) ==
    LET p == IF period = NoPeriod
             THEN (IF series.freq = "D" THEN 365 ELSE 12)
             ELSE period[1]
        error == DecomposeError(Len(series.values), TRUE, p)
    IN  IF error = "ok" THEN seasonal_decompose(series.values, series.index, p)
        ELSE Refused(error, p)

\* the timestamp (hour) labelling bucket b: the hour, the day's first hour,
\* the Sunday closing the week, the month's last day
LabelOf(freq, b) ==
    CASE freq = "H" -> b
      [] freq = "D" -> FirstHour(b)
      [] freq = "W" -> FirstHour(b * DaysPerWeek + (DaysPerWeek - 1))
      [] freq = "M" -> FirstHour(MonthStart(b + 1) - 1)

\* the 'sales' column of a frame resampled at freq, from bucket first on
ResampledSeries(freq, first, vs) ==
    [index  |-> [i \in DOMAIN vs |-> LabelOf(freq, first + i - 1)],
     freq   |-> freq,
     values |-> vs]

DecomposeInputs ==
    {[series |-> ResampledSeries(q, 0, vs), period |-> p] :
        q \in {"D", "M"},
        vs \in SeqsUpTo({0, 1, 2}, MaxObs),
        p \in {NoPeriod, Num(1), Num(2), Num(3)}}

InitDecompose ==
    /\ PipelineIdle
    /\ pc = "call"
    /\ arg \in DecomposeInputs
    /\ ret = NoCall

DecomposeSeries ==
    /\ pc = "call"
    /\ ret' = decompose_series(arg.series, arg.period)
    /\ pc' = "ret"
    /\ UNCHANGED <<df, datetime_index, has_sales, summaries, printed, buckets, calls, raised_in, arg>>

SpecDecompose == InitDecompose /\ [][DecomposeSeries]_vars

(***************************************************************************)
(* print_decomposition(result, title): the two slices of result.observed   *)
(* at the default threshold 0.25, then the insight of the first branch of  *)
(* the if/elif chain whose words the title contains (none: no insight).    *)
(* The plots are written to a file and leave the summary alone.            *)
(***************************************************************************)
\* series.dropna(): the rows [t, v] of the positions that are numbers
RECURSIVE dropna(_, _, _)
dropna(index, values, i) ==
    IF i > Len(values) THEN <<>>
    ELSE IF values[i] = NaN THEN dropna(index, values, i + 1)
    ELSE <<[t |-> index[i], v |-> values[i][1]]>> \o dropna(index, values, i + 1)

\* idxmax / idxmin: the label of the first row holding the extreme value
idxmax(rows) ==
    LET i == CHOOSE i \in DOMAIN rows :
                 /\ \A j \in DOMAIN rows : rows[j].v <= rows[i].v
                 /\ \A j \in 1..(i - 1) : rows[j].v < rows[i].v
    IN  rows[i].t

idxmin(rows) ==
    LET i == CHOOSE i \in DOMAIN rows :
                 /\ \A j \in DOMAIN rows : rows[i].v <= rows[j].v
                 /\ \A j \in 1..(i - 1) : rows[i].v < rows[j].v
    IN  rows[i].t

WeekdayNames ==
    <<"Monday", "Tuesday", "Wednesday", "Thursday", "Friday", "Saturday", "Sunday">>

MonthNames ==
    <<"January", "February", "March", "April", "May", "June", "July", "August",
      "September", "October", "November", "December">>

\* strftime of the timestamp t (an hour) with the format of the branch:
\* %H:%M, %A, %Y-%m-%d, %B, %B
Strftime(template, t) ==
    LET day == DayOf(t)
        month == MonthOf(day)
    IN  CASE template = "Peak Hours" -> <<t % HoursPerDay, 0>>
          [] template = "Peak Sales Days" -> <<WeekdayNames[(day % DaysPerWeek) + 1]>>
          [] template = "Peak Weeks" ->
                <<2018 + (month \div 12), (month % 12) + 1, day - MonthStart(month) + 1>>
          [] template = "Peak Sales Months" -> <<MonthNames[(month % 12) + 1]>>
          [] template = "Peak Seasons" -> <<MonthNames[(month % 12) + 1]>>

\* every branch reading the extremes of the trend
InsightSource_AlwaysTrend(template) == "trend"

\* the component whose extremes the branch reads
InsightSource(template) == IF template = "Peak Seasons" THEN "seasonal" ELSE "trend"

DefaultThreshold == [num |-> 1, den |-> 4]

print_decomposition(result, title) ==
    LET observed == dropna(result.index, result.observed, 1)
        extremes == identify_low_high_sales(observed, DefaultThreshold)
        trend == dropna(result.index, result.trend, 1)
        seasonal == dropna(result.index, result.seasonal, 1)
        template == InsightTemplate(title)
        source == IF InsightSource(template) = "seasonal" THEN seasonal ELSE trend
    IN  [title      |-> title,
         low_sales  |-> extremes.low_sales,
         high_sales |-> extremes.high_sales,
         insights   |->
             IF template = "none" THEN <<>>
             ELSE <<[template |-> template,
                     peak_at  |-> idxmax(source),
                     low_at   |-> idxmin(source),
                     peak     |-> Strftime(template, idxmax(source)),
                     low      |-> Strftime(template, idxmin(source))]>>]

\* the results analyze_data reports: those of the 'sales' column resampled
\* at the frequency of the resolution, under the title of the resolution
ReportPeriods == {2, 3}

ReportFreqs == <<"H", "D", "W", "M", "M">>

ReportInput(k, p, vs) ==
    [res    |-> Resolutions[k],
     title  |-> Title(Resolutions[k]),
     result |-> decompose_series(ResampledSeries(ReportFreqs[k], 0, vs), Num(p))]

InitReport ==
    /\ PipelineIdle
    /\ pc = "call"
    /\ \E k \in DOMAIN Resolutions, p \in ReportPeriods :
          \E vs \in {v \in SeqsUpTo({0, 1, 2}, MaxObs) : Len(v) >= 2 * p} :
              arg = ReportInput(k, p, vs)
    /\ ret = NoCall

PrintDecomposition ==
    /\ pc = "call"
    /\ ret' = print_decomposition(arg.result, arg.title)
    /\ pc' = "ret"
    /\ UNCHANGED <<df, datetime_index, has_sales, summaries, printed, buckets, calls, raised_in, arg>>

SpecReport == InitReport /\ [][PrintDecomposition]_vars

(***************************************************************************)
(* Properties of analyze_data, under Spec.                                 *)
(***************************************************************************)
ResolutionSet == Range(Resolutions)

\* the minimum bucket counts, the periods and the aggregations as the
\* specification states them
StatedMin == [Hourly |-> 48, Daily |-> 14, Weekly |-> 8, Monthly |-> 24, Seasonal |-> 24]

StatedPeriod == [Hourly |-> 24, Daily |-> 7, Weekly |-> 4, Monthly |-> 12, Seasonal |-> 12]

StatedFreq == [Hourly |-> "H", Daily |-> "D", Weekly |-> "W", Monthly |-> "M", Seasonal |-> "M"]

HasRun(res) == res \in DOMAIN buckets

BlocksOf(blocks, res) == {i \in DOMAIN blocks : blocks[i].res = res}

HasSentinel(res) == \E i \in BlocksOf(summaries, res) : summaries[i].kind = "sentinel"

HasReport(res) == \E i \in BlocksOf(summaries, res) : summaries[i].kind = "report"

CallsOf(res) == {i \in DOMAIN calls : calls[i].res = res}

\* C1: a pass that has run has put the "Not enough data" sentinel in the
\* summaries, without calling the Decomposer, exactly when the number of
\* buckets of its aggregation of the input (Seasonal: the monthly one) is
\* below its minimum 48, 14, 8, 24, 24; otherwise it has gone on to the
\* decomposition of exactly those buckets, and its block is a real report
\* (unless that pass raised, see C4).
C1_GateExactlyBelowMinimum ==
    \A res \in ResolutionSet :
        HasRun(res) =>
            LET n == BucketCount(df, StatedFreq[res])
                short == n < StatedMin[res]
            IN  /\ short <=> HasSentinel(res)
                /\ short => CallsOf(res) = {} /\ ~HasReport(res)
                /\ ~short =>
                      \/ \E i \in BlocksOf(summaries, res) :
                             /\ summaries[i].kind = "report"
                             /\ summaries[i].nobs = n
                             /\ CallsOf(res) # {}
                      \/ raised_in.res = res

\* 14 daily buckets decomposed and reported, 2 weekly buckets short-circuited
C1_Witness ==
    /\ HasRun("Weekly")
    /\ buckets["Daily"] = 14
    /\ HasReport("Daily")
    /\ HasSentinel("Weekly")

\* C2: every call of the Decomposer made by analyze_data passes the period
\* of its resolution (24, 7, 4, 12, 12), which is at least 2, and a series
\* of at least 2 * period points, and never ends in the Decomposer's
\* "2 complete cycles" error.
C2_DecomposerPrecondition ==
    /\ \A i \in DOMAIN calls :
          /\ calls[i].period = StatedPeriod[calls[i].res]
          /\ calls[i].period >= 2
          /\ calls[i].nobs >= 2 * calls[i].period
          /\ calls[i].error # "ValueError: x must have 2 complete cycles"
    /\ raised_in.error # "ValueError: x must have 2 complete cycles"

\* the Decomposer called on exactly two cycles: 48 hourly buckets, period 24
C2_Witness ==
    \E i \in DOMAIN calls :
        /\ calls[i].res = "Hourly"
        /\ calls[i].nobs = 48
        /\ calls[i].error = "ok"

\* C3: a run of analyze_data that completes has printed exactly five
\* blocks, those of Hourly, Daily, Weekly, Monthly, Seasonal in this order,
\* whichever of them are sentinels.
C3_FiveBlocksInOrder ==
    pc = "done" =>
        /\ Len(printed) = 5
        /\ \A i \in 1..5 : printed[i].res = Resolutions[i]

\* a completed run with three real reports and two sentinels
C3_Witness ==
    /\ pc = "done"
    /\ Len(printed) = 5
    /\ printed[3].kind = "report"
    /\ printed[4].kind = "sentinel"
    /\ printed[5].kind = "sentinel"

Terminated == pc \in {"done", "raised"}

Emitted(res) == BlocksOf(printed, res) # {}

\* C4 as stated: when analyze_data has ended, every resolution other than
\* one whose pass raised an error has emitted its report.
C4_PassesIndependent ==
    Terminated => \A res \in ResolutionSet : res # raised_in.res => Emitted(res)

\* C4 as amended: an insufficiency blocks nothing (a completed run has
\* emitted the block of every resolution, sentinels included); an error
\* raised in a pass ends analyze_data: the passes after it are not run and
\* nothing is emitted, not even the reports of the passes before it.
C4_InsufficiencyIndependentErrorAborts ==
    /\ pc = "done" =>
          /\ raised_in.res = "none"
          /\ \A res \in ResolutionSet : Emitted(res)
          /\ \A i \in DOMAIN printed :
                printed[i].kind = "sentinel" <=>
                    BucketCount(df, StatedFreq[printed[i].res]) < StatedMin[printed[i].res]
    /\ pc = "raised" =>
          /\ printed = <<>>
          /\ \E k \in DOMAIN Resolutions :
                /\ Resolutions[k] = raised_in.res
                /\ \A j \in DOMAIN Resolutions :
                      /\ j > k => ~HasRun(Resolutions[j])
                      /\ j >= k => BlocksOf(summaries, Resolutions[j]) = {}

\* the Daily pass raised after the Hourly pass had built its report: that
\* report is never printed
C4_Witness ==
    /\ pc = "raised"
    /\ raised_in.res = "Daily"
    /\ HasReport("Hourly")
    /\ printed = <<>>

Sufficient(res) == buckets[res] >= StatedMin[res]

IsSuffixOfSentinels(blocks) ==
    \A i, j \in DOMAIN blocks :
        (i < j /\ blocks[i].kind = "sentinel") => blocks[j].kind = "sentinel"

\* C10: the gate outcomes of one run are nested (Seasonal sufficient iff
\* Monthly, Monthly => Weekly => Daily => Hourly), so the sentinels form a
\* suffix of the summaries and of the printed blocks.
C10_GatesNested ==
    /\ HasRun("Seasonal") => (Sufficient("Seasonal") <=> Sufficient("Monthly"))
    /\ HasRun("Monthly") => (Sufficient("Monthly") => Sufficient("Weekly"))
    /\ HasRun("Weekly") => (Sufficient("Weekly") => Sufficient("Daily"))
    /\ HasRun("Daily") => (Sufficient("Daily") => Sufficient("Hourly"))
    /\ IsSuffixOfSentinels(summaries)
    /\ IsSuffixOfSentinels(printed)

\* 23 monthly buckets: Hourly, Daily and Weekly reported, Monthly and
\* Seasonal short by one bucket
C10_Witness ==
    /\ pc = "done"
    /\ buckets["Monthly"] = 23
    /\ Sufficient("Weekly")
    /\ printed[3].kind = "report"
    /\ printed[4].kind = "sentinel"

(***************************************************************************)
(* Properties of identify_low_high_sales, under SpecExtremes.              *)
(***************************************************************************)
ValuesOf(rows) == [i \in DOMAIN rows |-> rows[i].v]

\* floor(threshold * n)
FloorOfProduct(n, threshold) ==
    CHOOSE k \in 0..n : k * threshold.den <= n * threshold.num
                        /\ (k + 1) * threshold.den > n * threshold.num

\* n < 1 / threshold
BelowOneSlice(n, threshold) == n * threshold.num < threshold.den

\* C6: low and high each hold exactly floor(threshold * n) rows, low the
\* smallest-valued and high the largest-valued ones, so together at most n.
C6_SlicesHoldFloorOfThresholdTimesN ==
    pc = "ret" =>
        LET n == Len(arg.series)
            k == FloorOfProduct(n, arg.threshold)
            sorted == sort_values(arg.series)
        IN  /\ Len(ret.low_sales) = k
            /\ Len(ret.high_sales) = k
            /\ Len(ret.low_sales) + Len(ret.high_sales) <= n
            /\ ret.low_sales = SubSeq(sorted, 1, k)
            /\ ret.high_sales = SubSeq(sorted, n - k + 1, n)

C9_RegularGridConservesTotal ==
    pc = "ret" =>
        LET frame == arg.frame
            freq == arg.freq
            n == ret.len
        IN  /\ DOMAIN ret.index = 1..n
            /\ DOMAIN ret.sales = 1..n
            /\ frame = <<>> => n = 0
            /\ frame # <<>> =>
                  /\ n >= 1
                  /\ ret.index[1] = BucketOf(freq, frame[1].t)
                  /\ ret.index[n] = BucketOf(freq, frame[Len(frame)].t)
            /\ \A i \in 1..(n - 1) : ret.index[i + 1] = ret.index[i] + 1
            /\ \A i \in 1..n :
                  (\A j \in DOMAIN frame : BucketOf(freq, frame[j].t) # ret.index[i])
                      => ret.sales[i] = 0
            /\ SeqSum(ret.sales) = SeqSum(ValuesOf(frame))

\* weekly buckets from the first week of January to the first of February,
\* the weeks between them empty
C9_Witness ==
    /\ pc = "ret"
    /\ arg.freq = "W"
    /\ ret.len = 5
    /\ ret.sales[1] > 0
    /\ ret.sales[2] = 0
    /\ ret.sales[5] > 0

(***************************************************************************)
(* Property of decompose_series, under SpecDecompose.                      *)
(***************************************************************************)
\* C8: for an accepted series and period, observed, trend, seasonal and
\* resid have the length and the index of the input; trend and resid are
\* NaN at the first and the last floor(period / 2) positions and numbers
\* elsewhere; where trend is a number, observed = trend + seasonal + resid;
\* and seasonal repeats with the period.
C8_AdditiveDecompositionShape ==
    (pc = "ret" /\ ret.error = "ok") =>
        LET n == Len(arg.series.values)
            period == ret.period
            half == period \div 2
        IN  /\ arg.period # NoPeriod => period = arg.period[1]
            /\ ret.index = arg.series.index
            /\ \A part \in {ret.observed, ret.trend, ret.seasonal, ret.resid} :
                  DOMAIN part = 1..n
            /\ \A i \in 1..n :
                  /\ ret.observed[i] = Num(ret.scale * arg.series.values[i])
                  /\ ret.seasonal[i] # NaN
                  /\ i + period <= n => ret.seasonal[i + period] = ret.seasonal[i]
                  /\ IF i <= half \/ i > n - half
                     THEN ret.trend[i] = NaN /\ ret.resid[i] = NaN
                     ELSE /\ ret.trend[i] # NaN
                          /\ ret.resid[i] # NaN
                          /\ ret.observed[i][1] =
                                ret.trend[i][1] + ret.seasonal[i][1] + ret.resid[i][1]

\* six observations at period 3 with a seasonal component that is not flat
C8_Witness ==
    /\ pc = "ret"
    /\ ret.error = "ok"
    /\ ret.period = 3
    /\ Len(ret.observed) = 6
    /\ ret.trend[1] = NaN
    /\ ret.trend[2] # NaN
    /\ ret.seasonal[1] # ret.seasonal[2]
    /\ ret.resid[3][1] # 0

(***************************************************************************)
(* Property of print_decomposition, under SpecReport.                      *)
(***************************************************************************)
StatedTemplate ==
    [Hourly |-> "Peak Hours", Daily |-> "Peak Sales Days", Weekly |-> "Peak Weeks",
     Monthly |-> "Peak Sales Months", Seasonal |-> "Peak Seasons"]

\* the positions of a component that hold a number
NumbersOf(part) == {i \in DOMAIN part : part[i] # NaN}

\* C5: the report of a valid result holds exactly one insight, that of the
\* resolution reported; its peak and low are the timestamps of the maximum
\* and of the minimum of the trend over its defined points for Hourly,
\* Daily, Weekly and Monthly, and of the seasonal component for Seasonal.
C5_OneInsightOfTheResolution ==
    pc = "ret" =>
        /\ Len(ret.insights) = 1
        /\ ret.insights[1].template = StatedTemplate[arg.res]
        /\ LET insight == ret.insights[1]
               part == IF arg.res = "Seasonal" THEN arg.result.seasonal
                       ELSE arg.result.trend
           IN  /\ \E i \in NumbersOf(part) :
                     /\ arg.result.index[i] = insight.peak_at
                     /\ \A j \in NumbersOf(part) : part[j][1] <= part[i][1]
               /\ \E i \in NumbersOf(part) :
                     /\ arg.result.index[i] = insight.low_at
                     /\ \A j \in NumbersOf(part) : part[i][1] <= part[j][1]

\* a Monthly result whose trend peaks in March: the Monthly insight names
\* March
C5_Witness ==
    /\ pc = "ret"
    /\ arg.res = "Monthly"
    /\ ret.insights[1].template = "Peak Sales Months"
    /\ ret.insights[1].peak = <<"March">>
    /\ ret.insights[1].low # <<"March">>

====
